---- MODULE Spec2Model ----
(***************************************************************************)
(* Model of the mafia game engine of mafia_rust/src/game.rs: the roster,   *)
(* the phase state machine (Init / Day / Night / End), the vote and        *)
(* night-action resolvers, the win evaluator and the request/response      *)
(* loop of Game::game_thread.                                              *)
(*                                                                         *)
(* Pidx is the 0-based offset into the roster, as in the source; the       *)
(* roster itself is a TLA+ sequence, so players[i + 1] is the player with  *)
(* Pidx i.                                                                 *)
(***************************************************************************)
EXTENDS Integers, Sequences, FiniteSets, TLC

VARIABLES players, phase, input, rx, req, out, pc

vars == <<players, phase, input, rx, req, out, pc>>

\* ------------------------------------------------------------------ bounds
\* Requests are served only while the day / night number is at most MaxDay.
MaxDay == 1

\* ------------------------------------------------------------- Option / Result
None == [some |-> FALSE]
Some(x) == [some |-> TRUE, v |-> x]
Err == [ok |-> FALSE]
Ok(x) == [ok |-> TRUE, v |-> x]

\* ------------------------------------------------------------------ mod role
Roles ==
  {"TOWN", "COP", "DOCTOR", "CELEB", "MILLER", "MASON", "MAFIA", "GODFATHER",
   "STRIPPER", "GOON", "IDIOT", "SURVIVOR", "GUARD", "AGENT"}

team(role) ==
  CASE role \in {"TOWN", "COP", "DOCTOR", "CELEB"} -> "Town"
    [] role \in {"MILLER", "MASON"} -> "Town"
    [] role \in {"MAFIA", "GODFATHER", "GOON", "STRIPPER"} -> "Mafia"
    [] role \in {"IDIOT", "SURVIVOR", "GUARD", "AGENT"} -> "Rogue"

\* investigate_mafia by team alone, without the Godfather and Miller arms
investigate_mafia_by_team(role) == team(role) = "Mafia"

investigate_mafia(role) ==
  CASE role = "GODFATHER" -> FALSE
    [] role = "MILLER" -> TRUE
    [] OTHER -> team(role) = "Mafia"

has_night_action(role) == role \in {"COP", "DOCTOR", "STRIPPER"}

\* ------------------------------------------------------------------ mod game
Player(raw_pid, role) == [raw_pid |-> raw_pid, role |-> role]

BallotPlayer(p) == [kind |-> "Player", p |-> p]
Abstain == [kind |-> "Abstain"]

ActorPlayer(p) == [kind |-> "Player", p |-> p]
ActorMafia(p) == [kind |-> "Mafia", p |-> p]

TargetPlayer(p) == [kind |-> "Player", p |-> p]
NoTarget == [kind |-> "NoTarget"]
Blocked == [kind |-> "Blocked"]

WinnerTeam(t) == [kind |-> "Team", team |-> t]

PhaseInit == [tag |-> "Init"]
PhaseDay(n, votes) == [tag |-> "Day", day_no |-> n, votes |-> votes]
PhaseNight(n, actions) == [tag |-> "Night", night_no |-> n, actions |-> actions]
PhaseEnd(w) == [tag |-> "End", winner |-> w]

\* overlaps that lets two Mafia members hold an entry each
overlaps_same_member(a, b) ==
  \/ a.kind = "Player" /\ b.kind = "Player" /\ a.p = b.p
  \/ a.kind = "Mafia" /\ b.kind = "Mafia" /\ a.p = b.p

\* Actor::overlaps
overlaps(a, b) ==
  \/ a.kind = "Player" /\ b.kind = "Player" /\ a.p = b.p
  \/ a.kind = "Mafia" /\ b.kind = "Mafia"

\* Actor::is_player
is_player(a, p) == a.kind = "Player" /\ a.p = p

\* Actor::is_mafia
is_mafia(a) == a.kind = "Mafia"

\* Phase::clear
clear(ph) ==
  CASE ph.tag = "Day" -> [ph EXCEPT !.votes = <<>>]
    [] ph.tag = "Night" -> [ph EXCEPT !.actions = <<>>]
    [] OTHER -> ph

\* ------------------------------------------------------------ Vec helpers
\* Iterator::position over the sequence of the predicate's values: the 1-based
\* index of the first TRUE, or 0.
Position(hits) ==
  IF \E i \in 1..Len(hits) : hits[i]
  THEN CHOOSE i \in 1..Len(hits) : hits[i] /\ \A j \in 1..(i - 1) : ~hits[j]
  ELSE 0

\* Vec::remove
Remove(s, i) == [j \in 1..(Len(s) - 1) |-> IF j < i THEN s[j] ELSE s[j + 1]]

\* Iterator::filter(..).count() over the sequence of the predicate's values
Count(hits) == Cardinality({i \in 1..Len(hits) : hits[i]})

\* --------------------------------------------------------------- events
\* S::default(), the source of the events no request caused
DefaultSrc == ""

Ev(type, src) == [type |-> type, src |-> src]
EvStart(ps, ph, src) == [type |-> "Start", players |-> ps, phase |-> ph, src |-> src]
EvVote(voter, ballot, former, threshold, count, src) ==
  [type |-> "Vote", voter |-> voter, ballot |-> ballot, former |-> former,
   threshold |-> threshold, count |-> count, src |-> src]
EvElect(ballot, src) == [type |-> "Elect", ballot |-> ballot, src |-> src]
EvAction(actor, target, src) ==
  [type |-> "Action", actor |-> actor, target |-> target, src |-> src]
EvEliminate(p, src) == [type |-> "Eliminate", player |-> p, src |-> src]

\* ------------------------------------------------------------- Game methods
\* check_player counting positions from one
check_player_one_based(ps, raw_pid) ==
  LET i == Position([n \in 1..Len(ps) |-> ps[n].raw_pid = raw_pid])
  IN IF i = 0 THEN Err ELSE Ok(i)

\* Game::check_player: the Pidx (0-based) of the first player with the raw id
check_player(ps, raw_pid) ==
  LET i == Position([n \in 1..Len(ps) |-> ps[n].raw_pid = raw_pid])
  IN IF i = 0 THEN Err ELSE Ok(i - 1)

\* add_player without the "Player already exists" check
add_player_no_check(ps, ph, player) ==
  IF ph.tag = "Init"
  THEN [players |-> Append(ps, player), ok |-> TRUE]
  ELSE [players |-> ps, ok |-> FALSE]

\* Game::add_player: the roster after the call, and whether it succeeded
add_player(ps, ph, player) ==
  IF ph.tag = "Init"
  THEN IF check_player(ps, player.raw_pid).ok
       THEN [players |-> ps, ok |-> FALSE]
       ELSE [players |-> Append(ps, player), ok |-> TRUE]
  ELSE [players |-> ps, ok |-> FALSE]

\* next_phase where the Day after Night n is numbered n
next_phase_same_number(ps, ph, tx, src) ==
  LET ph1 == CASE ph.tag = "Init" -> PhaseDay(1, <<>>)
               [] ph.tag = "Day" -> PhaseNight(ph.day_no, <<>>)
               [] ph.tag = "Night" -> PhaseDay(ph.night_no, <<>>)
               [] OTHER -> ph
  IN [phase |-> ph1,
      tx |-> CASE ph1.tag = "Day" -> Append(tx, Ev("Day", src))
               [] ph1.tag = "Night" -> Append(tx, Ev("Night", src))
               [] ph1.tag = "End" -> Append(tx, Ev("End", src))]

\* next_phase without the announcement of Phase::End
next_phase_no_end(ps, ph, tx, src) ==
  LET ph1 == CASE ph.tag = "Init" -> PhaseDay(1, <<>>)
               [] ph.tag = "Day" -> PhaseNight(ph.day_no, <<>>)
               [] ph.tag = "Night" -> PhaseDay(ph.night_no + 1, <<>>)
               [] OTHER -> ph
  IN [phase |-> ph1,
      tx |-> CASE ph1.tag = "Day" -> Append(tx, Ev("Day", src))
               [] ph1.tag = "Night" -> Append(tx, Ev("Night", src))
               [] OTHER -> tx]

\* Game::next_phase
next_phase(ps, ph, tx, src) ==
  LET ph1 == CASE ph.tag = "Init" -> PhaseDay(1, <<>>)
               [] ph.tag = "Day" -> PhaseNight(ph.day_no, <<>>)
               [] ph.tag = "Night" -> PhaseDay(ph.night_no + 1, <<>>)
               [] OTHER -> ph
  IN [phase |-> ph1,
      tx |-> CASE ph1.tag = "Day" -> Append(tx, Ev("Day", src))
               [] ph1.tag = "Night" -> Append(tx, Ev("Night", src))
               [] ph1.tag = "End" -> Append(tx, Ev("End", src))]

\* check_win with the Mafia condition n_mafia >= n_players
check_win_all_mafia(ps, tx, src) ==
  LET n_players == Len(ps)
      n_mafia == Count([n \in 1..Len(ps) |-> team(ps[n].role) = "Mafia"])
      result == CASE n_mafia = 0 -> Some("Town")
                  [] n_mafia # 0 /\ n_mafia >= n_players -> Some("Mafia")
                  [] OTHER -> None
  IN [result |-> result,
      tx |-> IF result.some THEN Append(tx, Ev("Win", src)) ELSE tx]

\* Game::check_win
check_win(ps, tx, src) ==
  LET n_players == Len(ps)
      n_mafia == Count([n \in 1..Len(ps) |-> team(ps[n].role) = "Mafia"])
      result == CASE n_mafia = 0 -> Some("Town")
                  [] n_mafia # 0 /\ n_players <= n_mafia * 2 -> Some("Mafia")
                  [] OTHER -> None
  IN [result |-> result,
      tx |-> IF result.some THEN Append(tx, Ev("Win", src)) ELSE tx]

\* eliminate that emits the events but never enters Phase::End
eliminate_no_end(ps, ph, victim, tx, src) ==
  LET tx1 == Append(tx, EvEliminate(victim, src))
  IN IF victim >= Len(ps)
     THEN [players |-> ps, phase |-> ph, tx |-> tx1, panic |-> TRUE]
     ELSE LET ps1 == Remove(ps, victim + 1)
          IN [players |-> ps1, phase |-> clear(ph),
              tx |-> check_win(ps1, tx1, src).tx, panic |-> FALSE]

\* eliminate with Vec::swap_remove: the last player takes the victim's place
eliminate_swap_remove(ps, ph, victim, tx, src) ==
  LET tx1 == Append(tx, EvEliminate(victim, src))
  IN IF victim >= Len(ps)
     THEN [players |-> ps, phase |-> ph, tx |-> tx1, panic |-> TRUE]
     ELSE LET ps1 == [j \in 1..(Len(ps) - 1) |->
                        IF j = victim + 1 THEN ps[Len(ps)] ELSE ps[j]]
              ph1 == clear(ph)
              win == check_win(ps1, tx1, src)
          IN [players |-> ps1,
              phase |-> IF win.result.some
                        THEN PhaseEnd(WinnerTeam(win.result.v))
                        ELSE ph1,
              tx |-> win.tx,
              panic |-> FALSE]

\* Game::eliminate.  Vec::remove panics when the index is out of range.
eliminate(ps, ph, victim, tx, src) ==
  LET tx1 == Append(tx, EvEliminate(victim, src))
  IN IF victim >= Len(ps)
     THEN [players |-> ps, phase |-> ph, tx |-> tx1, panic |-> TRUE]
     ELSE LET ps1 == Remove(ps, victim + 1)
              ph1 == clear(ph)
              win == check_win(ps1, tx1, src)
          IN [players |-> ps1,
              phase |-> IF win.result.some
                        THEN PhaseEnd(WinnerTeam(win.result.v))
                        ELSE ph1,
              tx |-> win.tx,
              panic |-> FALSE]

\* Game::validate_vote
validate_vote(ps, raw_voter, raw_ballot) ==
  LET voter == check_player(ps, raw_voter)
  IN IF ~voter.ok THEN Err
     ELSE IF raw_ballot.some /\ raw_ballot.v.kind = "Player"
          THEN LET pid == check_player(ps, raw_ballot.v.p)
               IN IF ~pid.ok THEN Err
                  ELSE Ok(<<voter.v, Some(BallotPlayer(pid.v))>>)
          ELSE IF raw_ballot.some
               THEN Ok(<<voter.v, Some(Abstain)>>)
               ELSE Ok(<<voter.v, None>>)

\* accept_vote that looks the former ballot up after the removal
accept_vote_former_lost(votes, voter, ballot) ==
  LET i == Position([n \in 1..Len(votes) |-> votes[n][1] = voter])
      votes1 == IF i = 0 THEN votes ELSE Remove(votes, i)
      j == Position([n \in 1..Len(votes1) |-> votes1[n][1] = voter])
      votes2 == IF ballot.some THEN Append(votes1, <<voter, ballot.v>>) ELSE votes1
  IN [votes |-> votes2,
      former |-> IF j = 0 THEN None ELSE Some(votes1[j][2])]

\* accept_vote that takes a missing ballot for Abstain
accept_vote_none_abstains(votes, voter, ballot) ==
  LET i == Position([n \in 1..Len(votes) |-> votes[n][1] = voter])
      former == IF i = 0 THEN None ELSE Some(votes[i])
      votes1 == IF i = 0 THEN votes ELSE Remove(votes, i)
      votes2 == Append(votes1, <<voter, IF ballot.some THEN ballot.v ELSE Abstain>>)
  IN [votes |-> votes2,
      former |-> IF former.some THEN Some(former.v[2]) ELSE None]

\* Game::accept_vote: the tally after the call and the voter's former ballot
accept_vote(votes, voter, ballot) ==
  LET i == Position([n \in 1..Len(votes) |-> votes[n][1] = voter])
      former == IF i = 0 THEN None ELSE Some(votes[i])
      votes1 == IF i = 0 THEN votes ELSE Remove(votes, i)
      votes2 == IF ballot.some THEN Append(votes1, <<voter, ballot.v>>) ELSE votes1
  IN [votes |-> votes2,
      former |-> IF former.some THEN Some(former.v[2]) ELSE None]

\* check_elect with the Player threshold applied to Abstain as well
check_elect_one_threshold(ps, votes, former, tx, src) ==
  LET n_players == Len(ps)
      threshold == (n_players \div 2) + 1
  IN IF Len(votes) = 0 THEN [elect |-> None, tx |-> tx]
     ELSE LET last_voter == votes[Len(votes)][1]
              last_ballot == votes[Len(votes)][2]
              count == Count([n \in 1..Len(votes) |-> votes[n][2] = last_ballot])
              tx1 == Append(tx, EvVote(last_voter, Some(last_ballot), former,
                                       threshold, count, src))
          IN [elect |-> IF count >= threshold THEN Some(last_ballot) ELSE None,
              tx |-> tx1]

\* check_elect looking at the oldest ballot of the tally, votes.first()
check_elect_first_ballot(ps, votes, former, tx, src) ==
  LET n_players == Len(ps)
      threshold0 == (n_players \div 2) + 1
      lo_thresh == (n_players + 1) \div 2
  IN IF Len(votes) = 0 THEN [elect |-> None, tx |-> tx]
     ELSE LET first_voter == votes[1][1]
              first_ballot == votes[1][2]
              threshold == IF first_ballot = Abstain THEN lo_thresh ELSE threshold0
              count == Count([n \in 1..Len(votes) |-> votes[n][2] = first_ballot])
              tx1 == Append(tx, EvVote(first_voter, Some(first_ballot), former,
                                       threshold, count, src))
          IN [elect |-> CASE first_ballot.kind = "Player" /\ count >= threshold
                               -> Some(BallotPlayer(first_ballot.p))
                          [] first_ballot.kind = "Abstain" /\ count >= lo_thresh
                               -> Some(Abstain)
                          [] OTHER -> None,
              tx |-> tx1]

\* Game::check_elect
check_elect(ps, votes, former, tx, src) ==
  LET n_players == Len(ps)
      threshold0 == (n_players \div 2) + 1
      lo_thresh == (n_players + 1) \div 2
  IN IF Len(votes) = 0 THEN [elect |-> None, tx |-> tx]
     ELSE LET last_voter == votes[Len(votes)][1]
              last_ballot == votes[Len(votes)][2]
              threshold == IF last_ballot = Abstain THEN lo_thresh ELSE threshold0
              count == Count([n \in 1..Len(votes) |-> votes[n][2] = last_ballot])
              tx1 == Append(tx, EvVote(last_voter, Some(last_ballot), former,
                                       threshold, count, src))
          IN [elect |-> CASE last_ballot.kind = "Player" /\ count >= threshold
                               -> Some(BallotPlayer(last_ballot.p))
                          [] last_ballot.kind = "Abstain" /\ count >= lo_thresh
                               -> Some(Abstain)
                          [] OTHER -> None,
              tx |-> tx1]

\* Game::handle_vote: the tally, the ballot elected (if any) and the events
handle_vote(ps, votes, raw_voter, raw_ballot, tx, src) ==
  LET v == validate_vote(ps, raw_voter, raw_ballot)
  IN IF ~v.ok
     THEN [votes |-> votes, elect |-> None,
           tx |-> Append(tx, Ev("InvalidCommand", src))]
     ELSE LET acc == accept_vote(votes, v.v[1], v.v[2])
              chk == check_elect(ps, acc.votes, acc.former, tx, src)
          IN [votes |-> acc.votes, elect |-> chk.elect, tx |-> chk.tx]

\* handle_elect announcing the next phase before the elimination
handle_elect_announce_first(ps, ph, ballot, tx, src) ==
  LET tx1 == Append(tx, EvElect(ballot, src))
      np == next_phase(ps, ph, tx1, src)
  IN IF ballot.kind = "Player"
     THEN eliminate(ps, np.phase, ballot.p, np.tx, src)
     ELSE [players |-> ps, phase |-> np.phase, tx |-> np.tx, panic |-> FALSE]

\* handle_elect where only an elimination ends the day
handle_elect_abstain_stays(ps, ph, ballot, tx, src) ==
  LET tx1 == Append(tx, EvElect(ballot, src))
  IN IF ballot.kind = "Player"
     THEN LET el == eliminate(ps, ph, ballot.p, tx1, src)
              np == next_phase(el.players, el.phase, el.tx, src)
          IN IF el.panic THEN el
             ELSE [players |-> el.players, phase |-> np.phase, tx |-> np.tx,
                   panic |-> FALSE]
     ELSE [players |-> ps, phase |-> ph, tx |-> tx1, panic |-> FALSE]

\* Game::handle_elect
handle_elect(ps, ph, ballot, tx, src) ==
  LET tx1 == Append(tx, EvElect(ballot, src))
      el == IF ballot.kind = "Player"
            THEN eliminate(ps, ph, ballot.p, tx1, src)
            ELSE [players |-> ps, phase |-> ph, tx |-> tx1, panic |-> FALSE]
      np == next_phase(el.players, el.phase, el.tx, src)
  IN IF el.panic THEN el
     ELSE [players |-> el.players, phase |-> np.phase, tx |-> np.tx,
           panic |-> FALSE]

\* Game::validate_action
validate_action(ps, raw_actor, raw_target) ==
  LET actor == check_player(ps, raw_actor.p)
  IN IF ~actor.ok THEN Err
     ELSE LET a == IF raw_actor.kind = "Player"
                   THEN ActorPlayer(actor.v) ELSE ActorMafia(actor.v)
          IN IF raw_target.some /\ raw_target.v.kind = "Player"
             THEN LET pid == check_player(ps, raw_target.v.p)
                  IN IF ~pid.ok THEN Err
                     ELSE Ok(<<a, Some(TargetPlayer(pid.v))>>)
             ELSE IF raw_target.some /\ raw_target.v.kind = "NoTarget"
                  THEN Ok(<<a, Some(NoTarget)>>)
                  ELSE Ok(<<a, None>>)

\* Game::accept_action
accept_action(actions, actor, target, tx, src) ==
  LET i == Position([n \in 1..Len(actions) |-> overlaps(actions[n][1], actor)])
      actions1 == IF i = 0 THEN actions ELSE Remove(actions, i)
  IN IF target.some
     THEN [actions |-> Append(actions1, <<actor, target.v>>),
           tx |-> Append(tx, EvAction(actor, Some(target.v), src))]
     ELSE [actions |-> actions1, tx |-> tx]

\* Game::check_dawn
check_dawn(ps, actions) ==
  /\ \A i \in 1..Len(ps) :
        has_night_action(ps[i].role)
          => \E k \in 1..Len(actions) : actions[k][1] = ActorPlayer(i - 1)
  /\ \E k \in 1..Len(actions) : is_mafia(actions[k][1])

\* handle_action that answers an invalid command with the default source
handle_action_default_src(ps, actions, raw_actor, raw_target, tx, src) ==
  LET v == validate_action(ps, raw_actor, raw_target)
  IN IF ~v.ok
     THEN [actions |-> actions, dawn |-> FALSE,
           tx |-> Append(tx, Ev("InvalidCommand", DefaultSrc))]
     ELSE LET acc == accept_action(actions, v.v[1], v.v[2], tx, src)
          IN [actions |-> acc.actions,
              dawn |-> check_dawn(ps, acc.actions),
              tx |-> acc.tx]

\* Game::handle_action: the tally, whether dawn breaks, and the events
handle_action(ps, actions, raw_actor, raw_target, tx, src) ==
  LET v == validate_action(ps, raw_actor, raw_target)
  IN IF ~v.ok
     THEN [actions |-> actions, dawn |-> FALSE,
           tx |-> Append(tx, Ev("InvalidCommand", src))]
     ELSE LET acc == accept_action(actions, v.v[1], v.v[2], tx, src)
          IN [actions |-> acc.actions,
              dawn |-> check_dawn(ps, acc.actions),
              tx |-> acc.tx]

\* Game::get_players_that, for the filter "the role is r": the Pidx list
get_players_that(ps, r) ==
  SelectSeq([i \in 1..Len(ps) |-> i - 1], LAMBDA i : ps[i + 1].role = r)

\* n copies of the event e appended to tx
AppendN(tx, e, n) == tx \o [k \in 1..n |-> e]

\* Game::strip
strip(actions, stripped, tx, src) ==
  [actions |-> [k \in 1..Len(actions) |->
                  IF actions[k][1] = ActorPlayer(stripped)
                  THEN <<actions[k][1], Blocked>> ELSE actions[k]],
   tx |-> AppendN(tx, Ev("Strip", src),
                  Count([n \in 1..Len(actions) |-> actions[n][1] = ActorPlayer(stripped)]))]

\* Game::save
save(actions, saved, tx, src) ==
  [actions |-> [k \in 1..Len(actions) |->
                  IF is_mafia(actions[k][1]) /\ actions[k][2] = TargetPlayer(saved)
                  THEN <<actions[k][1], Blocked>> ELSE actions[k]],
   tx |-> AppendN(tx, Ev("Save", src),
                  Count([n \in 1..Len(actions) |-> is_mafia(actions[n][1])]))]

\* the for_each of handle_dawn over the strippers
RECURSIVE strip_each(_, _, _, _)
strip_each(idxs, actions, tx, src) ==
  IF idxs = <<>> THEN [actions |-> actions, tx |-> tx]
  ELSE LET r == strip(actions, Head(idxs), tx, src)
       IN strip_each(Tail(idxs), r.actions, r.tx, src)

\* the for_each of handle_dawn over the doctors
RECURSIVE save_each(_, _, _, _)
save_each(idxs, actions, tx, src) ==
  IF idxs = <<>> THEN [actions |-> actions, tx |-> tx]
  ELSE LET r == save(actions, Head(idxs), tx, src)
       IN save_each(Tail(idxs), r.actions, r.tx, src)

\* Game::investigate.  players[suspect] panics when out of range; the local
\* is_mafia is computed and goes nowhere: Event::Investigate has no field.
investigate(cop, suspect, ps, tx, src) ==
  IF suspect >= Len(ps) THEN [tx |-> tx, panic |-> TRUE]
  ELSE [tx |-> Append(tx, Ev("Investigate", src)), panic |-> FALSE,
        is_mafia |-> investigate_mafia(ps[suspect + 1].role)]

\* the loop of handle_dawn over the cops
RECURSIVE investigate_each(_, _, _, _, _)
investigate_each(cops, actions, ps, tx, src) ==
  IF cops = <<>> THEN [tx |-> tx, panic |-> FALSE]
  ELSE LET k == Position([n \in 1..Len(actions) |-> is_player(actions[n][1], Head(cops))])
       IN IF k # 0 /\ actions[k][2].kind = "Player"
          THEN LET r == investigate(Head(cops), actions[k][2].p, ps, tx, src)
               IN IF r.panic THEN r
                  ELSE investigate_each(Tail(cops), actions, ps, r.tx, src)
          ELSE investigate_each(Tail(cops), actions, ps, tx, src)

\* handle_dawn with the doctors served before the strippers
handle_dawn_save_first(ps, actions, tx, src) ==
  LET tx0 == Append(tx, Ev("Dawn", src))
      sv == save_each(get_players_that(ps, "DOCTOR"), actions, tx0, src)
      st == strip_each(get_players_that(ps, "STRIPPER"), sv.actions, sv.tx, src)
      inv == investigate_each(get_players_that(ps, "COP"), st.actions, ps, st.tx, src)
      k == Position([n \in 1..Len(st.actions) |-> is_mafia(st.actions[n][1])])
  IN IF inv.panic
     THEN [actions |-> st.actions, victim |-> None, tx |-> inv.tx, panic |-> TRUE]
     ELSE IF k # 0 /\ st.actions[k][2].kind = "Player"
          THEN [actions |-> st.actions, victim |-> Some(st.actions[k][2].p),
                tx |-> Append(inv.tx, Ev("Kill", src)), panic |-> FALSE]
          ELSE [actions |-> st.actions, victim |-> None, tx |-> inv.tx,
                panic |-> FALSE]

\* Game::handle_dawn
handle_dawn(ps, actions, tx, src) ==
  LET tx0 == Append(tx, Ev("Dawn", src))
      st == strip_each(get_players_that(ps, "STRIPPER"), actions, tx0, src)
      sv == save_each(get_players_that(ps, "DOCTOR"), st.actions, st.tx, src)
      inv == investigate_each(get_players_that(ps, "COP"), sv.actions, ps, sv.tx, src)
      k == Position([n \in 1..Len(sv.actions) |-> is_mafia(sv.actions[n][1])])
  IN IF inv.panic
     THEN [actions |-> sv.actions, victim |-> None, tx |-> inv.tx, panic |-> TRUE]
     ELSE IF k # 0 /\ sv.actions[k][2].kind = "Player"
          THEN [actions |-> sv.actions, victim |-> Some(sv.actions[k][2].p),
                tx |-> Append(inv.tx, Ev("Kill", src)), panic |-> FALSE]
          ELSE [actions |-> sv.actions, victim |-> None, tx |-> inv.tx,
                panic |-> FALSE]

\* ------------------------------------------------------- requests and rosters
\* raw player ids the driver uses in requests; a roster player whose raw id is
\* not among them never votes, acts or is named
RawIds == {1, 2, 3, 4}

\* request sources
Sources == {"a"}

\* the rosters handed to Game::new
Rosters ==
  { <<Player(1, "TOWN"), Player(2, "TOWN"), Player(3, "MAFIA")>>,
    <<Player(1, "TOWN"), Player(9, "TOWN"), Player(2, "MAFIA"), Player(3, "TOWN")>>,
    <<Player(3, "DOCTOR"), Player(1, "STRIPPER")>>,
    <<Player(2, "COP"), Player(1, "GOON")>>,
    <<Player(2, "GODFATHER"), Player(1, "MILLER")>>,
    <<Player(1, "TOWN"), Player(1, "MAFIA"), Player(2, "MAFIA")>>,
    <<Player(4, "IDIOT")>>,
    <<>> }

RawBallots == {None, Some(Abstain)} \cup {Some(BallotPlayer(r)) : r \in RawIds}
RawActors == {ActorPlayer(r) : r \in RawIds} \cup {ActorMafia(r) : r \in RawIds}
RawTargets ==
  {None, Some(NoTarget), Some(Blocked)} \cup {Some(TargetPlayer(r)) : r \in RawIds}

\* Command::Vote / Command::Action wrapped in a Request
VoteRequest(voter, ballot, src) ==
  [cmd |-> "Vote", voter |-> voter, ballot |-> ballot, src |-> src]
ActionRequest(actor, target, src) ==
  [cmd |-> "Action", actor |-> actor, target |-> target, src |-> src]

VoteRequests == {VoteRequest(v, b, s) : v \in RawIds, b \in RawBallots, s \in Sources}
ActionRequests ==
  {ActionRequest(a, t, s) : a \in RawActors, t \in RawTargets, s \in Sources}

\* the requests sent in the wrong phase: the loop does not look inside them
StrayActionRequests ==
  {ActionRequest(a, Some(NoTarget), s) :
     a \in {ActorPlayer(1), ActorMafia(1)}, s \in Sources}
StrayVoteRequests ==
  {VoteRequest(1, b, s) : b \in {None, Some(Abstain)}, s \in Sources}

\* --------------------------------------------------------- Game::game_thread
\* the Phase::Day arm of the loop, for a received Vote request
day_arm(ps, ph, r) ==
  LET hv == handle_vote(ps, ph.votes, r.voter, r.ballot, <<>>, r.src)
      ph1 == [ph EXCEPT !.votes = hv.votes]
  IN IF hv.elect.some
     THEN handle_elect(ps, ph1, hv.elect.v, hv.tx, r.src)
     ELSE [players |-> ps, phase |-> ph1, tx |-> hv.tx, panic |-> FALSE]

\* the Phase::Night arm: the call of next_phase that ends the night
night_next(el, src) ==
  IF el.panic THEN el
  ELSE LET np == next_phase(el.players, el.phase, el.tx, src)
       IN [players |-> el.players, phase |-> np.phase, tx |-> np.tx,
           panic |-> FALSE]

\* the Phase::Night arm: the match on the victim handle_dawn returned
night_victim(ps, ph, hd, src) ==
  night_next(IF hd.victim.some /\ ~hd.panic
             THEN eliminate(ps, [ph EXCEPT !.actions = hd.actions],
                            hd.victim.v, hd.tx, src)
             ELSE [players |-> ps, phase |-> [ph EXCEPT !.actions = hd.actions],
                   tx |-> hd.tx, panic |-> hd.panic],
             src)

\* the Phase::Night arm: the branch on the result of handle_action
night_dawn(ps, ph, ha, src) ==
  IF ~ha.dawn
  THEN [players |-> ps, phase |-> [ph EXCEPT !.actions = ha.actions],
        tx |-> ha.tx, panic |-> FALSE]
  ELSE night_victim(ps, ph, handle_dawn(ps, ha.actions, ha.tx, src), src)

\* the Phase::Night arm of the loop, for a received Action request
night_arm(ps, ph, r) ==
  night_dawn(ps, ph,
             handle_action(ps, ph.actions, r.actor, r.target, <<>>, r.src),
             r.src)

\* ------------------------------------------------------------------ actions
Init ==
  /\ players = <<>>
  /\ phase = PhaseInit
  /\ input \in Rosters
  /\ rx = "open"
  /\ req = None
  /\ out = <<>>
  /\ pc = "new"

\* Game::new: one iteration of the loop over the given players
AddPlayer ==
  /\ pc = "new"
  /\ input # <<>>
  /\ players' = add_player(players, phase, Head(input)).players
  /\ input' = Tail(input)
  /\ UNCHANGED <<phase, rx, req, out, pc>>

\* the prologue sending Start before the call of next_phase
start_before_next_phase ==
  /\ pc = "new"
  /\ input = <<>>
  /\ LET np == next_phase(players, phase, <<>>, DefaultSrc)
     IN /\ phase' = np.phase
        /\ out' = <<EvStart(players, phase, DefaultSrc)>> \o np.tx
  /\ pc' = "loop"
  /\ UNCHANGED <<players, input, rx, req>>

\* Game::start and the prologue of game_thread
Start ==
  /\ pc = "new"
  /\ input = <<>>
  /\ LET np == next_phase(players, phase, <<>>, DefaultSrc)
     IN /\ phase' = np.phase
        /\ out' = Append(np.tx, EvStart(players, np.phase, DefaultSrc))
  /\ pc' = "loop"
  /\ UNCHANGED <<players, input, rx, req>>

Serve(res, r) ==
  /\ players' = res.players
  /\ phase' = res.phase
  /\ out' = res.tx
  /\ req' = Some(r)
  /\ pc' = IF res.panic THEN "panic" ELSE "loop"
  /\ UNCHANGED <<input, rx>>

\* loop, Phase::Day, rx.recv() yields a Vote request
DayVote ==
  /\ pc = "loop" /\ rx = "open"
  /\ phase.tag = "Day" /\ phase.day_no <= MaxDay
  /\ \E r \in VoteRequests : Serve(day_arm(players, phase, r), r)

\* loop, Phase::Day, rx.recv() yields a request that is not a Vote
DayOther ==
  /\ pc = "loop" /\ rx = "open"
  /\ phase.tag = "Day" /\ phase.day_no <= MaxDay
  /\ \E r \in StrayActionRequests :
        /\ req' = Some(r)
        /\ out' = <<>>
  /\ UNCHANGED <<players, phase, input, rx, pc>>

\* loop, Phase::Night, rx.recv() yields an Action request
NightAction ==
  /\ pc = "loop" /\ rx = "open"
  /\ phase.tag = "Night" /\ phase.night_no <= MaxDay
  /\ \E r \in ActionRequests : Serve(night_arm(players, phase, r), r)

\* loop, Phase::Night, rx.recv() yields a request that is not an Action
NightOther ==
  /\ pc = "loop" /\ rx = "open"
  /\ phase.tag = "Night" /\ phase.night_no <= MaxDay
  /\ \E r \in StrayVoteRequests :
        /\ req' = Some(r)
        /\ out' = <<>>
  /\ UNCHANGED <<players, phase, input, rx, pc>>

\* loop, Phase::Day or Phase::Night, rx.recv() fails: the driver has dropped
\* its sender and no request is left in the channel
RecvErr ==
  /\ pc = "loop"
  /\ phase.tag \in {"Day", "Night"}
  /\ rx' = "closed"
  /\ req' = None
  /\ out' = <<>>
  /\ UNCHANGED <<players, phase, input, pc>>

\* the Phase::End arm doing what the catch-all arm does: send End, loop on
exit_sends_end ==
  /\ pc = "loop"
  /\ phase.tag = "End"
  /\ req' = None
  /\ out' = <<Ev("End", DefaultSrc)>>
  /\ UNCHANGED <<players, phase, input, rx, pc>>

\* loop, Phase::End: break
Exit ==
  /\ pc = "loop"
  /\ phase.tag = "End"
  /\ pc' = "done"
  /\ req' = None
  /\ out' = <<>>
  /\ UNCHANGED <<players, phase, input, rx>>

Next ==
  \/ AddPlayer
  \/ Start
  \/ DayVote
  \/ DayOther
  \/ NightAction
  \/ NightOther
  \/ RecvErr
  \/ Exit

Spec == Init /\ [][Next]_vars

\* the game thread is scheduled: a loop iteration that can break does break
FairSpec == Spec /\ WF_vars(Exit)

\* ============================================================== properties
\* What the properties read off the state, written without the operators above.

HasEvent(tx, t) == \E k \in 1..Len(tx) : tx[k].type = t

EventsOf(tx, t) == SelectSeq(tx, LAMBDA e : e.type = t)

\* the raw id names a player of the current roster
Known(raw) == \E i \in 1..Len(players) : players[i].raw_pid = raw

\* the Pidx of the player with the raw id
PidxOf(raw) == (CHOOSE i \in 1..Len(players) : players[i].raw_pid = raw) - 1

MafiaRoles == {"MAFIA", "GODFATHER", "GOON", "STRIPPER"}
NMafia == Cardinality({i \in 1..Len(players) : players[i].role \in MafiaRoles})

\* this step serves a Vote request during Day
VoteStep ==
  /\ pc = "loop" /\ phase.tag = "Day"
  /\ req'.some /\ req'.v.cmd = "Vote"

\* ... whose voter and ballot target (if any) resolve
ValidVoteStep ==
  /\ VoteStep
  /\ Known(req'.v.voter)
  /\ (req'.v.ballot.some /\ req'.v.ballot.v.kind = "Player")
       => Known(req'.v.ballot.v.p)

\* ... and which casts a ballot / retracts
CastStep == ValidVoteStep /\ req'.v.ballot.some
RetractStep == ValidVoteStep /\ ~req'.v.ballot.some

\* the ballot a CastStep casts, with the target as a Pidx
CastBallot ==
  IF req'.v.ballot.v.kind = "Player"
  THEN [kind |-> "Player", p |-> PidxOf(req'.v.ballot.v.p)]
  ELSE [kind |-> "Abstain"]

\* the tally of the other voters, in order
OtherVotes(voter) == SelectSeq(phase.votes, LAMBDA e : e[1] # voter)

\* the number of live ballots equal to b once voter's ballot b is folded in
LiveCount(voter, b) ==
  Cardinality({i \in 1..Len(phase.votes) :
                 phase.votes[i][1] # voter /\ phase.votes[i][2] = b}) + 1

\* the threshold of ballot b with the current roster
Threshold(b) ==
  IF b.kind = "Abstain" THEN (Len(players) + 1) \div 2
  ELSE (Len(players) \div 2) + 1

\* ---------------------------------------------------------------------- C1
MinimalRoster == <<Player(1, "TOWN"), Player(2, "TOWN"), Player(3, "MAFIA")>>

MinimalVote1(s) == VoteRequest(1, Some(BallotPlayer(3)), s)
MinimalVote2(s) == VoteRequest(2, Some(BallotPlayer(3)), s)

\* C1: with the roster P1 Town, P2 Town, P3 Mafia on Day 1, "P1 votes P3"
\* produces Vote{count 1, threshold 2} and nothing else, and "P2 votes P3",
\* served next, produces Vote{count 2, threshold 2}, Elect{Player(P3)},
\* Eliminate{P3}, Win, End in this order and nothing else; the phase is then
\* End with winner Team Town.
C1_MinimalScenario ==
  [][\A s \in Sources :
       /\ ( /\ pc = "loop" /\ players = MinimalRoster
            /\ phase = PhaseDay(1, <<>>)
            /\ req' = Some(MinimalVote1(s)) )
          => /\ out' = <<EvVote(0, Some(BallotPlayer(2)), None, 2, 1, s)>>
             /\ players' = MinimalRoster
             /\ phase' = PhaseDay(1, << <<0, BallotPlayer(2)>> >>)
             /\ pc' = "loop"
       /\ ( /\ pc = "loop" /\ players = MinimalRoster
            /\ phase = PhaseDay(1, << <<0, BallotPlayer(2)>> >>)
            /\ req' = Some(MinimalVote2(s)) )
          => /\ out' = <<EvVote(1, Some(BallotPlayer(2)), None, 2, 2, s),
                         EvElect(BallotPlayer(2), s),
                         EvEliminate(2, s),
                         Ev("Win", s),
                         Ev("End", s)>>
             /\ phase' = PhaseEnd(WinnerTeam("Town"))
             /\ players' = <<Player(1, "TOWN"), Player(2, "TOWN")>>
    ]_vars

\* the second vote of the scenario has been served and the game is over
C1_Witness ==
  /\ \E s \in Sources : req = Some(MinimalVote2(s))
  /\ Len(out) = 5 /\ out[1].type = "Vote" /\ out[1].voter = 1
  /\ out[1].former = None /\ out[5].type = "End"
  /\ players = <<Player(1, "TOWN"), Player(2, "TOWN")>>
  /\ phase = PhaseEnd(WinnerTeam("Town"))

\* ---------------------------------------------------------------------- C2
\* C2: an accepted non-retract vote during a Day with N live players emits a
\* Vote event whose threshold is N/2+1 for a Player ballot and (N+1)/2 for
\* Abstain, and an Elect event, for the ballot just cast, is emitted if and
\* only if the live ballots equal to it, the new one included, reach that
\* threshold.
C2_ElectIffThreshold ==
  [][CastStep =>
       LET b == CastBallot
           voter == PidxOf(req'.v.voter)
       IN /\ Len(out') >= 1 /\ out'[1].type = "Vote"
          /\ out'[1].threshold = Threshold(b)
          /\ HasEvent(out', "Elect") <=> LiveCount(voter, b) >= Threshold(b)
          /\ \A k \in 1..Len(out') :
                out'[k].type = "Elect" => out'[k].ballot = b
    ]_vars

\* two Abstain ballots elect Abstain among four players, where a Player ballot
\* would have needed three
C2_Witness ==
  /\ Len(players) = 4
  /\ Len(out) >= 2 /\ out[1].type = "Vote" /\ out[1].ballot = Some(Abstain)
  /\ out[1].count = 2 /\ out[1].threshold = 2
  /\ out[2].type = "Elect" /\ out[2].ballot = Abstain
  /\ phase.tag = "Night"
\* ---------------------------------------------------------------------- C3
\* the request just served eliminated a player: players is the roster after
\* the removal
Eliminated == HasEvent(out, "Eliminate")

\* play moved on to the phase after the one the request was served in
Advanced ==
  /\ req.some
  /\ req.v.cmd = "Vote" => phase.tag = "Night" /\ phase.actions = <<>>
  /\ req.v.cmd = "Action" => phase.tag = "Day" /\ phase.votes = <<>>

\* C3 as stated: after an elimination that leaves n_mafia > 0, the game ends
\* with Mafia victory iff n_mafia >= n_players; when 0 < n_mafia < n_players
\* no winner is declared, no Win event is emitted and play advances.
C3_AsStated ==
  (Eliminated /\ NMafia > 0)
    => /\ phase = PhaseEnd(WinnerTeam("Mafia")) <=> NMafia >= Len(players)
       /\ NMafia < Len(players)
            => /\ phase.tag # "End"
               /\ ~HasEvent(out, "Win")
               /\ Advanced

\* C3, amended: after an elimination that leaves n_mafia > 0, the game ends
\* with Mafia victory iff n_players <= 2 * n_mafia (Mafia has reached parity
\* with the rest); when 0 < 2 * n_mafia < n_players no winner is declared, no
\* Win event is emitted and play advances to the next phase.
C3_MafiaParity ==
  (Eliminated /\ NMafia > 0)
    => /\ phase = PhaseEnd(WinnerTeam("Mafia")) <=> Len(players) <= 2 * NMafia
       /\ Len(players) <= 2 * NMafia => HasEvent(out, "Win")
       /\ 2 * NMafia < Len(players)
            => /\ phase.tag # "End"
               /\ ~HasEvent(out, "Win")
               /\ Advanced

\* an elimination left one Mafia among three players and the game goes on
C3_Witness ==
  /\ Eliminated /\ NMafia = 1 /\ Len(players) = 3
  /\ phase.tag = "Night" /\ ~HasEvent(out, "Win")

\* ---------------------------------------------------------------------- C4
\* C4: an elimination (by election or by night kill) that leaves no Mafia-team
\* player on the roster emits Win and ends the game with winner Team Town
\* within the same request; and the winner is Team Town only when no
\* Mafia-team player is on the roster.
C4_TownVictory ==
  /\ (Eliminated /\ NMafia = 0)
       => /\ HasEvent(out, "Win")
          /\ phase = PhaseEnd(WinnerTeam("Town"))
          /\ out[Len(out)].type = "End"
  /\ phase = PhaseEnd(WinnerTeam("Town")) => NMafia = 0

\* a night kill removed the last Mafia-team player
C4_Witness ==
  /\ req.some /\ req.v.cmd = "Action"
  /\ Eliminated /\ HasEvent(out, "Kill") /\ NMafia = 0 /\ Len(players) >= 1
  /\ phase = PhaseEnd(WinnerTeam("Town"))

\* ---------------------------------------------------------------------- C5
\* this step serves an Action request during Night
ActionStep ==
  /\ pc = "loop" /\ phase.tag = "Night"
  /\ req'.some /\ req'.v.cmd = "Action"

\* a raw id of the request served by this step names no player of the roster
UnknownIdStep ==
  \/ /\ VoteStep
     /\ \/ ~Known(req'.v.voter)
        \/ /\ req'.v.ballot.some /\ req'.v.ballot.v.kind = "Player"
           /\ ~Known(req'.v.ballot.v.p)
  \/ /\ ActionStep
     /\ \/ ~Known(req'.v.actor.p)
        \/ /\ req'.v.target.some /\ req'.v.target.v.kind = "Player"
           /\ ~Known(req'.v.target.v.p)

\* C5: a Vote (during Day) or Action (during Night) naming a raw id that is not
\* on the roster produces exactly one event, InvalidCommand with the source of
\* the request, leaves roster, phase and tally unchanged, and the engine goes
\* on to receive the next request.
C5_UnknownIdRejected ==
  [][UnknownIdStep =>
       /\ out' = <<Ev("InvalidCommand", req'.v.src)>>
       /\ players' = players
       /\ phase' = phase
       /\ pc' = "loop" /\ rx' = rx
    ]_vars

\* an action naming an unknown target was rejected while the tally held entries
C5_Witness ==
  /\ phase.tag = "Night" /\ Len(phase.actions) >= 1
  /\ req.some /\ req.v.cmd = "Action"
  /\ Known(req.v.actor.p)
  /\ req.v.target.some /\ req.v.target.v.kind = "Player"
  /\ ~Known(req.v.target.v.p)
  /\ Len(out) = 1 /\ out[1].type = "InvalidCommand"
\* ---------------------------------------------------------------------- C6
\* this step receives a request the current phase has no use for
WrongPhaseStep ==
  /\ pc = "loop" /\ req'.some
  /\ \/ phase.tag = "Night" /\ req'.v.cmd = "Vote"
     \/ phase.tag = "Day" /\ req'.v.cmd = "Action"

\* C6: a Vote request received during Night, or an Action request received
\* during Day, produces exactly one InvalidCommand event with the source of
\* the request and changes no state.
C6_WrongPhaseRejected ==
  [][WrongPhaseStep =>
       /\ out' = <<Ev("InvalidCommand", req'.v.src)>>
       /\ players' = players
       /\ phase' = phase
    ]_vars

\* ---------------------------------------------------------------------- C7
\* the actor of the Action request served by this step names a player of the
\* roster who may not act that way
IneligibleActorStep ==
  /\ ActionStep
  /\ Known(req'.v.actor.p)
  /\ LET role == players[PidxOf(req'.v.actor.p) + 1].role
     IN \/ req'.v.actor.kind = "Player" /\ role \notin {"COP", "DOCTOR", "STRIPPER"}
        \/ req'.v.actor.kind = "Mafia" /\ role \notin MafiaRoles

\* C7: during Night an Action request whose actor is ineligible (Actor::Player
\* of a role without night action, Actor::Mafia of a player not on the Mafia
\* team) is rejected with InvalidCommand and is not stored: tally and roster
\* stay as they were, so it neither fills a readiness slot nor kills.
C7_IneligibleActorRejected ==
  [][IneligibleActorStep =>
       /\ out' = <<Ev("InvalidCommand", req'.v.src)>>
       /\ phase' = phase
       /\ players' = players
    ]_vars

\* ---------------------------------------------------------------------- C8
\* at most one entry per voter; at most one entry per Actor::Player(p) and at
\* most one Actor::Mafia entry whoever submitted it
OneEntryPerKey(ph) ==
  /\ ph.tag = "Day"
       => \A i, j \in 1..Len(ph.votes) :
             ph.votes[i][1] = ph.votes[j][1] => i = j
  /\ ph.tag = "Night"
       => \A i, j \in 1..Len(ph.actions) :
             ( \/ /\ ph.actions[i][1].kind = "Mafia"
                  /\ ph.actions[j][1].kind = "Mafia"
               \/ ph.actions[i][1] = ph.actions[j][1] ) => i = j

\* the entries of the action tally that a submission by actor a leaves alone
OtherActions(a) ==
  SelectSeq(phase.actions,
            LAMBDA e : IF a.kind = "Mafia" THEN e[1].kind # "Mafia" ELSE e[1] # a)

\* this step serves an Action request that resolves and names a target
SubmitStep ==
  /\ ActionStep
  /\ Known(req'.v.actor.p)
  /\ req'.v.target.some
  /\ req'.v.target.v.kind = "NoTarget"
       \/ (req'.v.target.v.kind = "Player" /\ Known(req'.v.target.v.p))

\* C8: the tally never holds two entries for one key (one ballot per voter by
\* Day; by Night one target per Actor::Player(p) and one Mafia entry in all),
\* and an accepted submission for an occupied key replaces the entry: while
\* the phase lasts the tally is the other keys' entries followed by the new
\* one.
C8_OneEntryPerKey ==
  [][/\ OneEntryPerKey(phase')
     /\ (CastStep /\ phase'.tag = "Day")
          => phase'.votes =
               Append(OtherVotes(PidxOf(req'.v.voter)),
                      <<PidxOf(req'.v.voter), CastBallot>>)
     /\ (SubmitStep /\ phase'.tag = "Night")
          => LET a == [kind |-> req'.v.actor.kind, p |-> PidxOf(req'.v.actor.p)]
                 t == IF req'.v.target.v.kind = "Player"
                      THEN [kind |-> "Player", p |-> PidxOf(req'.v.target.v.p)]
                      ELSE [kind |-> "NoTarget"]
             IN phase'.actions = Append(OtherActions(a), <<a, t>>)
    ]_vars

\* a Mafia submission was accepted into a tally that already held an
\* individual actor's entry
C8_Witness ==
  /\ phase.tag = "Night" /\ Len(phase.actions) = 2
  /\ phase.actions[1][1].kind = "Player"
  /\ phase.actions[2][1].kind = "Mafia"
  /\ req.some /\ req.v.cmd = "Action" /\ req.v.actor.kind = "Mafia"
  /\ Len(out) = 1 /\ out[1].type = "Action"

\* ---------------------------------------------------------------------- C9
\* the ballot the voter holds in the tally, as an Option
FormerBallot(voter) ==
  IF \E i \in 1..Len(phase.votes) : phase.votes[i][1] = voter
  THEN [some |-> TRUE,
        v |-> phase.votes[CHOOSE i \in 1..Len(phase.votes) :
                            phase.votes[i][1] = voter][2]]
  ELSE [some |-> FALSE]

\* C9: an accepted non-retract vote emits exactly one Vote event: its voter is
\* the requesting voter, its ballot the ballot just cast, its former the
\* voter's previous ballot (none without one) and its count the number of live
\* ballots equal to the ballot just cast.
C9_VoteEvent ==
  [][CastStep =>
       LET voter == PidxOf(req'.v.voter)
           vs == EventsOf(out', "Vote")
       IN /\ Len(vs) = 1
          /\ out'[1] = vs[1]
          /\ vs[1].voter = voter
          /\ vs[1].ballot = [some |-> TRUE, v |-> CastBallot]
          /\ vs[1].former = FormerBallot(voter)
          /\ vs[1].count = LiveCount(voter, CastBallot)
          /\ vs[1].src = req'.v.src
    ]_vars

\* a voter changed their ballot to one that another voter already holds
C9_Witness ==
  /\ phase.tag = "Day" /\ req.some /\ req.v.cmd = "Vote"
  /\ Len(out) = 1 /\ out[1].type = "Vote"
  /\ out[1].former.some /\ out[1].former # out[1].ballot
  /\ out[1].count = 2 /\ out[1].threshold = 3

\* --------------------------------------------------------------------- C10
\* C10: a retraction by a voter on the roster removes that voter's ballot and
\* nothing else, emits no Elect and no Eliminate event, and leaves the same
\* Day and the same roster.
C10_RetractNeverElects ==
  [][RetractStep =>
       /\ ~HasEvent(out', "Elect")
       /\ ~HasEvent(out', "Eliminate")
       /\ players' = players
       /\ phase'.tag = "Day" /\ phase'.day_no = phase.day_no
       /\ phase'.votes = OtherVotes(PidxOf(req'.v.voter))
       /\ pc' = "loop"
    ]_vars

\* a voter withdrew their ballot while two equal ballots of other voters, one
\* short of the threshold, stay in the tally
C10_Witness ==
  /\ phase.tag = "Day" /\ Len(phase.votes) = 2
  /\ phase.votes[1][2] = phase.votes[2][2]
  /\ Len(players) = 4
  /\ req.some /\ req.v.cmd = "Vote" /\ ~req.v.ballot.some
  /\ Known(req.v.voter)
  /\ \A i \in 1..2 : phase.votes[i][1] # PidxOf(req.v.voter)
  /\ Len(out) = 1 /\ out[1].former.some

\* --------------------------------------------------------------------- C11
\* C11: a retraction by a voter on the roster emits exactly one retraction
\* event, which names the retracting voter and their prior ballot (none
\* without one), and no Vote event; this with an empty tally after the
\* retraction as well as with other voters' ballots left in it.
C11_RetractEvent ==
  [][RetractStep =>
       LET voter == PidxOf(req'.v.voter)
           rs == EventsOf(out', "RetractVote")
       IN /\ Len(rs) = 1
          /\ rs[1].voter = voter
          /\ rs[1].former = FormerBallot(voter)
          /\ ~HasEvent(out', "Vote")
    ]_vars

\* --------------------------------------------------------------------- C12
\* this step serves an Action request, during Night, whose actor and target
\* (if any) resolve
AcceptedActionStep ==
  /\ ActionStep
  /\ Known(req'.v.actor.p)
  /\ (req'.v.target.some /\ req'.v.target.v.kind = "Player")
       => Known(req'.v.target.v.p)

\* the action tally once the request of an AcceptedActionStep is folded in
FoldedActions ==
  LET a == [kind |-> req'.v.actor.kind, p |-> PidxOf(req'.v.actor.p)]
  IN IF ~req'.v.target.some \/ req'.v.target.v.kind = "Blocked"
     THEN OtherActions(a)
     ELSE IF req'.v.target.v.kind = "Player"
     THEN Append(OtherActions(a),
                 <<a, [kind |-> "Player", p |-> PidxOf(req'.v.target.v.p)]>>)
     ELSE Append(OtherActions(a), <<a, req'.v.target.v>>)

\* the occupied actor slots of a tally: one per individual actor and one for
\* the Mafia faction
OccupiedSlots(actions) ==
  {IF actions[k][1].kind = "Mafia" THEN [kind |-> "Mafia"] ELSE actions[k][1] :
     k \in 1..Len(actions)}

\* the number of required slots: the live players with a night action, and
\* the Mafia faction
RequiredSlots ==
  Cardinality({i \in 1..Len(players) : has_night_action(players[i].role)}) + 1

\* C12: after an accepted action dawn starts if and only if the number of
\* occupied actor slots of the tally equals the number of required slots.
C12_DawnIffSlotsFilled ==
  [][AcceptedActionStep =>
       (HasEvent(out', "Dawn")
          <=> Cardinality(OccupiedSlots(FoldedActions)) = RequiredSlots)
    ]_vars

\* --------------------------------------------------------------------- C13
\* this step serves the accepted action that makes dawn break
DawnStep == AcceptedActionStep /\ HasEvent(out', "Dawn")

\* the live players of role r, as Pidx
Holders(r) == {i - 1 : i \in {j \in 1..Len(players) : players[j].role = r}}

\* the tally handle_dawn starts from holds the entry (actor, target)
Declared(actor, target) ==
  \E k \in 1..Len(FoldedActions) : FoldedActions[k] = <<actor, target>>

\* the Mafia entry of the tally handle_dawn starts from is submitted by
\* player m and targets player v
MafiaDeclared(m, v) == Declared(ActorMafia(m), TargetPlayer(v))

\* the players some Stripper declared as target
Stripped ==
  {t \in 0..(Len(players) - 1) :
     \E s \in Holders("STRIPPER") : Declared(ActorPlayer(s), TargetPlayer(t))}

\* C13: at dawn the action of the player each Stripper targeted is blocked
\* before Save and Kill are evaluated: when a Stripper targeted a Doctor whose
\* declared target is the victim of an unstripped Mafia action, the victim is
\* killed and eliminated; when a Stripper targeted the player who submitted
\* the Mafia action, there is no kill.
C13_StripBlocksTarget ==
  [][DawnStep =>
       \A m, v \in 0..(Len(players) - 1) :
         MafiaDeclared(m, v) =>
           /\ m \in Stripped => ~HasEvent(out', "Kill")
           /\ ( /\ m \notin Stripped
                /\ \E d \in Holders("DOCTOR") :
                     d \in Stripped /\ Declared(ActorPlayer(d), TargetPlayer(v))
                /\ \A d \in Holders("DOCTOR") :
                     Declared(ActorPlayer(d), TargetPlayer(v)) => d \in Stripped )
              => /\ HasEvent(out', "Kill")
                 /\ \E k \in 1..Len(out') :
                      out'[k].type = "Eliminate" /\ out'[k].player = v
    ]_vars

\* --------------------------------------------------------------------- C14
\* some unstripped Doctor's declared target is the player the Mafia action,
\* itself not stripped, targets
SaveApplies ==
  \E m, v \in 0..(Len(players) - 1) :
    /\ MafiaDeclared(m, v) /\ m \notin Stripped
    /\ \E d \in Holders("DOCTOR") :
         d \notin Stripped /\ Declared(ActorPlayer(d), TargetPlayer(v))

\* C14: at dawn a Save event is emitted exactly when some unstripped Doctor's
\* declared target is the player the unblocked Mafia action targets, and then
\* neither Kill nor Eliminate follows; otherwise a Mafia action with a Player
\* target, not stripped, kills.
C14_SaveIffDeclaredTarget ==
  [][DawnStep =>
       /\ HasEvent(out', "Save") <=> SaveApplies
       /\ SaveApplies
            => ~HasEvent(out', "Kill") /\ ~HasEvent(out', "Eliminate")
       /\ \A m, v \in 0..(Len(players) - 1) :
            (MafiaDeclared(m, v) /\ m \notin Stripped /\ ~SaveApplies)
              => /\ HasEvent(out', "Kill")
                 /\ \E k \in 1..Len(out') :
                      out'[k].type = "Eliminate" /\ out'[k].player = v
    ]_vars

\* --------------------------------------------------------------------- C15
\* C15: every dawn emits exactly one of Kill and NoKill: Kill, followed by the
\* elimination of the victim, or NoKill with the roster unchanged.
C15_KillOrNoKill ==
  [][DawnStep =>
       /\ Len(EventsOf(out', "Kill")) + Len(EventsOf(out', "NoKill")) = 1
       /\ HasEvent(out', "Kill")
            => \E k \in 2..Len(out') :
                 out'[k - 1].type = "Kill" /\ out'[k].type = "Eliminate"
       /\ HasEvent(out', "NoKill") => players' = players
    ]_vars

\* --------------------------------------------------------------------- C16
\* C16: the first phase after Init is Day 1; a step leaves Day n for Night n
\* or End only, Night n for Day n+1 or End only, and never leaves End.
C16_PhaseNumbering ==
  [][/\ phase.tag = "Init"
          => phase'.tag = "Init" \/ phase' = PhaseDay(1, <<>>)
     /\ phase.tag = "Day"
          => \/ phase'.tag = "Day" /\ phase'.day_no = phase.day_no
             \/ phase' = PhaseNight(phase.day_no, <<>>)
             \/ phase'.tag = "End"
     /\ phase.tag = "Night"
          => \/ phase'.tag = "Night" /\ phase'.night_no = phase.night_no
             \/ phase' = PhaseDay(phase.night_no + 1, <<>>)
             \/ phase'.tag = "End"
     /\ phase.tag = "End" => phase' = phase
    ]_vars

\* a dawn has just opened Day 2
C16_Witness ==
  /\ phase = PhaseDay(2, <<>>)
  /\ req.some /\ req.v.cmd = "Action"
  /\ HasEvent(out, "Dawn") /\ out[Len(out)].type = "Day"

\* --------------------------------------------------------------------- C17
\* the phase-announcement events
Announcements(tx) == SelectSeq(tx, LAMBDA e : e.type \in {"Day", "Night", "End"})

\* this step of the loop leaves a Day or a Night for another phase
TransitionStep ==
  /\ pc = "loop" /\ phase.tag \in {"Day", "Night"}
  /\ phase'.tag # phase.tag

\* C17: a step that goes from Day to Night, from Night to Day or from either
\* to End emits exactly one phase announcement; it names the new phase and is
\* the last event of the step, after every Eliminate, Kill and Win event; a
\* newly entered Day or Night has an empty collection.
C17_OneAnnouncement ==
  [][TransitionStep =>
       /\ Len(Announcements(out')) = 1
       /\ out'[Len(out')].type = phase'.tag
       /\ phase'.tag = "Day" => phase'.votes = <<>>
       /\ phase'.tag = "Night" => phase'.actions = <<>>
    ]_vars

\* a night kill ended the game: Kill, Eliminate and Win precede End
C17_Witness ==
  /\ phase.tag = "End"
  /\ req.some /\ req.v.cmd = "Action"
  /\ Len(out) >= 4
  /\ out[Len(out) - 3].type = "Kill"
  /\ out[Len(out) - 2].type = "Eliminate"
  /\ out[Len(out) - 1].type = "Win"
  /\ out[Len(out)].type = "End"

\* --------------------------------------------------------------------- C18
\* C18: no request is served with more than one Eliminate event, and the
\* roster changes only with one; an Eliminate{p} step removes player p and
\* keeps the others in order, sends one Win event if the roster left has a
\* winner (no Mafia player, or at most twice as many players as Mafia players)
\* and none otherwise, ends the game exactly in the first case, and leaves no
\* vote or action of the phase behind.
C18_Eliminate ==
  [][LET es == EventsOf(out', "Eliminate")
     IN /\ Len(es) <= 1
        /\ Len(es) = 0 /\ pc = "loop" => players' = players
        /\ Len(es) = 1 =>
             LET p == es[1].player
                 won == NMafia' = 0 \/ Len(players') <= 2 * NMafia'
             IN /\ p < Len(players)
                /\ Len(players') = Len(players) - 1
                /\ \A i \in 1..Len(players') :
                      players'[i] = IF i <= p THEN players[i] ELSE players[i + 1]
                /\ Len(EventsOf(out', "Win")) = IF won THEN 1 ELSE 0
                /\ phase'.tag = "End" <=> won
                /\ phase'.tag = "Day" => phase'.votes = <<>>
                /\ phase'.tag = "Night" => phase'.actions = <<>>
    ]_vars

\* the first of four players was voted out and the game goes on into the
\* night with the three others in their order
C18_Witness ==
  /\ players = <<Player(9, "TOWN"), Player(2, "MAFIA"), Player(3, "TOWN")>>
  /\ phase.tag = "Night" /\ phase.actions = <<>>
  /\ \E k \in 1..Len(out) : out[k].type = "Eliminate" /\ out[k].player = 0
  /\ ~HasEvent(out, "Win")

\* --------------------------------------------------------------------- C19
\* this step casts the Abstain ballot that brings Abstain to its threshold
AbstainElectStep ==
  /\ CastStep /\ CastBallot = Abstain
  /\ LiveCount(PidxOf(req'.v.voter), Abstain) >= Threshold(Abstain)

\* C19: when Abstain reaches its threshold on Day n the events are the Vote
\* event, Elect{Abstain} and Night, with no Eliminate and no Win event; the
\* roster is unchanged and the phase is Night n with an empty action tally.
C19_AbstainElection ==
  [][AbstainElectStep =>
       /\ Len(out') = 3 /\ out'[1].type = "Vote"
       /\ out'[2] = EvElect(Abstain, req'.v.src)
       /\ out'[3] = Ev("Night", req'.v.src)
       /\ ~HasEvent(out', "Eliminate") /\ ~HasEvent(out', "Win")
       /\ players' = players
       /\ phase' = PhaseNight(phase.day_no, <<>>)
    ]_vars

\* the second Abstain ballot of three players ended Day 1
C19_Witness ==
  /\ players = MinimalRoster
  /\ phase = PhaseNight(1, <<>>)
  /\ req.some /\ req.v.cmd = "Vote" /\ req.v.ballot = Some(Abstain)
  /\ Len(out) = 3 /\ out[1].type = "Vote" /\ out[1].count = 2
  /\ out[2].type = "Elect" /\ out[2].ballot = Abstain

\* --------------------------------------------------------------------- C20
\* C20: once the phase is End the only step left is the exit of the loop: it
\* receives no request, emits no event and changes neither roster nor winner;
\* after it nothing happens; and the loop does exit.
C20_EndIsTerminal ==
  /\ [][phase.tag = "End"
          => /\ pc = "loop" /\ pc' = "done"
             /\ req' = None /\ out' = <<>> /\ rx' = rx
             /\ players' = players /\ phase' = phase
       ]_vars
  /\ (phase.tag = "End") ~> (pc = "done")

\* the two Town players voted out the only Mafia player and the game thread
\* has finished
C20_Witness ==
  /\ pc = "done"
  /\ players = <<Player(1, "TOWN"), Player(2, "TOWN")>>
  /\ phase = PhaseEnd(WinnerTeam("Town"))
  /\ req = None /\ out = <<>>

\* --------------------------------------------------------------------- C21
\* C21: when a receive fails during Day or Night because the request channel
\* is closed, the loop exits with no event and no change of roster or phase.
C21_ClosedChannelExits ==
  [][(pc = "loop" /\ phase.tag \in {"Day", "Night"} /\ rx' = "closed")
       => /\ pc' = "done"
          /\ out' = <<>>
          /\ players' = players /\ phase' = phase
    ]_vars

\* --------------------------------------------------------------------- C22
\* the game thread waits for its first request
AwaitingFirstRequest == pc = "loop" /\ rx = "open" /\ req = None

\* C22: nothing is emitted before the game thread runs; when it waits for its
\* first request it has emitted one Start event, which carries the roster and
\* the phase Day 1 with no votes; a Start event is never among the events of a
\* later step.
C22_StartOnce ==
  /\ pc = "new" => out = <<>> /\ req = None
  /\ AwaitingFirstRequest
       => /\ Len(EventsOf(out, "Start")) = 1
          /\ out[Len(out)] = EvStart(players, PhaseDay(1, <<>>), DefaultSrc)
          /\ phase = PhaseDay(1, <<>>)
  /\ HasEvent(out, "Start") => AwaitingFirstRequest

\* the game of the minimal test has started and no request has been received
C22_Witness ==
  /\ AwaitingFirstRequest
  /\ Len(out) = 2 /\ out[2].type = "Start"
  /\ out[2].players = MinimalRoster
  /\ out[2].phase = PhaseDay(1, <<>>)

\* --------------------------------------------------------------------- C23
\* the Mafia entry of the tally is one submitted by a Goon
GoonMafiaEntry(actions) ==
  \E k \in 1..Len(actions) :
    /\ actions[k][1].kind = "Mafia"
    /\ players[actions[k][1].p + 1].role = "GOON"

\* C23: a Mafia action submitted by a Goon is stored with the target Blocked
\* whatever target was requested, and a dawn whose Mafia entry is a Goon's has
\* neither Kill nor Eliminate.
C23_GoonBlocked ==
  [][(AcceptedActionStep /\ GoonMafiaEntry(FoldedActions))
       => /\ \A k \in 1..Len(FoldedActions) :
               ( /\ FoldedActions[k][1].kind = "Mafia"
                 /\ phase'.tag = "Night" /\ k <= Len(phase'.actions) )
               => phase'.actions[k] = <<FoldedActions[k][1], Blocked>>
          /\ DawnStep => ~HasEvent(out', "Kill") /\ ~HasEvent(out', "Eliminate")
    ]_vars

\* --------------------------------------------------------------------- C24
\* the stage of the dawn pipeline an event belongs to; 0 for an event that is
\* no part of a dawn
DawnStage(e) ==
  CASE e.type = "Dawn" -> 1
    [] e.type = "Strip" -> 2
    [] e.type = "Save" -> 3
    [] e.type = "Investigate" -> 4
    [] e.type \in {"Kill", "NoKill"} -> 5
    [] e.type = "Eliminate" -> 6
    [] e.type = "Win" -> 7
    [] e.type \in {"Day", "End"} -> 8
    [] OTHER -> 0

\* the stages that hold one event at most
SingleStages == {1, 5, 6, 7, 8}

\* C24: the events of a dawn, which follow the Action event of the request if
\* there is one, are in the order Dawn, Strip events, Save events, Investigate
\* events, Kill or NoKill, Eliminate, Win, phase announcement; Dawn comes
\* first and the announcement last; the phase after the dawn of Night n is
\* End if a winner was declared and Day n+1 with no votes otherwise.
C24_DawnOrder ==
  [][DawnStep =>
       LET d == CHOOSE k \in 1..Len(out') : out'[k].type = "Dawn"
       IN /\ \A k \in 1..(d - 1) : out'[k].type = "Action"
          /\ d <= 2
          /\ \A k \in (d + 1)..Len(out') : DawnStage(out'[k]) > 1
          /\ \A k \in d..(Len(out') - 1) :
                /\ DawnStage(out'[k]) <= DawnStage(out'[k + 1])
                /\ DawnStage(out'[k]) \in SingleStages
                     => DawnStage(out'[k]) < DawnStage(out'[k + 1])
          /\ DawnStage(out'[Len(out')]) = 8
          /\ IF HasEvent(out', "Win")
             THEN phase'.tag = "End" /\ out'[Len(out')].type = "End"
             ELSE /\ phase' = PhaseDay(phase.night_no + 1, <<>>)
                  /\ out'[Len(out')].type = "Day"
    ]_vars

\* a dawn with a Strip, a Save and a kill that ends the game
C24_Witness ==
  /\ phase.tag = "End"
  /\ req.some /\ req.v.cmd = "Action"
  /\ \E d \in 1..2 :
       /\ Len(out) = d + 6
       /\ out[d].type = "Dawn" /\ out[d + 1].type = "Strip"
       /\ out[d + 2].type = "Save" /\ out[d + 3].type = "Kill"
       /\ out[d + 4].type = "Eliminate" /\ out[d + 5].type = "Win"
       /\ out[d + 6].type = "End"

\* a dawn with an investigation and no kill, after which Day 2 begins
C24_WitnessNoKill ==
  /\ phase = PhaseDay(2, <<>>)
  /\ req.some /\ req.v.cmd = "Action"
  /\ \E d \in 1..2 :
       /\ Len(out) = d + 2
       /\ out[d].type = "Dawn" /\ out[d + 1].type = "Investigate"
       /\ out[d + 2].type = "Day"

\* --------------------------------------------------------------------- C25
\* the Cops whose entry in the tally handle_dawn starts from has a Player
\* target
InvestigatingCops ==
  {c \in Holders("COP") :
     \E t \in 0..(Len(players) - 1) : Declared(ActorPlayer(c), TargetPlayer(t))}

\* C25: a dawn carries one Investigate event for each Cop whose stored action
\* has a Player target and none for a Cop with NoTarget; the verdict of a role
\* is "mafia" exactly for Miller and for the roles of team Mafia other than
\* Godfather.
C25_Investigate ==
  /\ [][DawnStep =>
          Len(EventsOf(out', "Investigate")) = Cardinality(InvestigatingCops)
       ]_vars
  /\ [](\A r \in Roles :
          investigate_mafia(r)
            <=> \/ r = "MILLER"
                \/ r \in MafiaRoles /\ r # "GODFATHER")

\* the Cop investigated the Goon in the night the Goon killed the Cop
C25_Witness ==
  /\ players = <<Player(1, "GOON")>>
  /\ req.some /\ req.v.cmd = "Action"
  /\ Len(EventsOf(out, "Investigate")) = 1
  /\ HasEvent(out, "Kill")

\* --------------------------------------------------------------------- C26
\* every position held in the tally of the phase names a player of the roster
TallyInRange ==
  /\ phase.tag = "Day"
       => \A k \in 1..Len(phase.votes) :
            /\ phase.votes[k][1] < Len(players)
            /\ phase.votes[k][2].kind = "Player"
                 => phase.votes[k][2].p < Len(players)
  /\ phase.tag = "Night"
       => \A k \in 1..Len(phase.actions) :
            /\ phase.actions[k][1].p < Len(players)
            /\ phase.actions[k][2].kind = "Player"
                 => phase.actions[k][2].p < Len(players)

\* C26: every position held in the vote or action tally is smaller than the
\* roster length, no elimination or investigation is handed a position out of
\* range (the thread never panics on one), the position of an Eliminate event
\* is one of the roster before the step, and a step that changes the roster
\* leaves no tally entry recorded before it.
C26_IndicesValid ==
  /\ [](TallyInRange /\ pc # "panic")
  /\ [][/\ \A k \in 1..Len(out') :
             out'[k].type = "Eliminate" => out'[k].player < Len(players)
        /\ players' # players /\ pc = "loop"
             => /\ phase'.tag = "Day" => phase'.votes = <<>>
                /\ phase'.tag = "Night" => phase'.actions = <<>>
       ]_vars

\* after the first of four players was voted out, the Mafia's night kill names
\* the last player by their new position, 2, and removes that player
C26_Witness ==
  /\ players = <<Player(9, "TOWN"), Player(2, "MAFIA")>>
  /\ req.some /\ req.v.cmd = "Action"
  /\ req.v.actor = ActorMafia(2) /\ req.v.target = Some(TargetPlayer(3))
  /\ \E k \in 1..Len(out) : out[k].type = "Eliminate" /\ out[k].player = 2
  /\ pc = "loop"

\* --------------------------------------------------------------------- C27
\* the number of ballots of the tally equal to b
TallyCount(b) ==
  Cardinality({k \in 1..Len(phase.votes) : phase.votes[k][2] = b})

\* C27: while the loop waits for a request during a Day, no ballot of the
\* tally has as many equal ballots as its threshold asks for (N/2+1 for a
\* Player ballot, (N+1)/2 for Abstain).
C27_NoMissedElection ==
  (pc = "loop" /\ phase.tag = "Day")
    => \A k \in 1..Len(phase.votes) :
         TallyCount(phase.votes[k][2]) < Threshold(phase.votes[k][2])

\* among four players a voter withdrew their ballot; two equal Player ballots,
\* one short of the threshold, stay in the tally, the later voter's first:
\* the last entry, which check_elect examined, is not the one just touched
C27_Witness ==
  /\ Len(players) = 4 /\ pc = "loop"
  /\ phase.tag = "Day" /\ Len(phase.votes) = 2
  /\ phase.votes[1][2] = phase.votes[2][2]
  /\ phase.votes[1][2].kind = "Player"
  /\ phase.votes[1][1] > phase.votes[2][1]
  /\ req.some /\ req.v.cmd = "Vote" /\ ~req.v.ballot.some
  /\ Len(out) = 1 /\ out[1].type = "Vote" /\ out[1].former.some
  /\ out[1].count = 2 /\ out[1].threshold = 3

\* --------------------------------------------------------------------- C28
\* the raw ids of the roster are pairwise distinct
DistinctRawIds ==
  \A i, j \in 1..Len(players) :
    players[i].raw_pid = players[j].raw_pid => i = j

\* what a call of add_player in the current state does, for every candidate:
\* during Init a new raw id is appended and a present one refused, after
\* Init every one is refused; a refusal leaves the roster as it is
AddPlayerOutcome ==
  \A raw \in RawIds, role \in {"TOWN", "MAFIA"} :
    LET r == add_player(players, phase, Player(raw, role))
    IN IF phase.tag = "Init" /\ ~Known(raw)
       THEN r.ok /\ r.players = Append(players, Player(raw, role))
       ELSE ~r.ok /\ r.players = players

\* C28: the raw ids of the roster are pairwise distinct in every state; in
\* Init a player whose raw id is present is refused and the roster, with the
\* first entry, stays; outside Init every addition is refused; after Init the
\* roster only loses players.
C28_UniqueRawIds ==
  /\ [](DistinctRawIds /\ AddPlayerOutcome)
  /\ [][/\ (pc = "new" /\ players' # players)
             => /\ phase.tag = "Init" /\ ~Known(Head(input).raw_pid)
                /\ players' = Append(players, Head(input))
        /\ phase.tag # "Init"
             => /\ Len(players') <= Len(players)
                /\ \A i \in 1..Len(players') :
                      \E j \in 1..Len(players) : players[j] = players'[i]
       ]_vars

\* Game::new was given P1 Town, P1 Mafia, P2 Mafia: the second P1 was refused
C28_Witness ==
  /\ pc = "new" /\ input = <<>>
  /\ players = <<Player(1, "TOWN"), Player(2, "MAFIA")>>

====
